---- MODULE Spec2Model ----
(***************************************************************************)
(* A model of the text pipeline of sec-text-clustering:                    *)
(*   utils/processing.py  convert_attr_to_dict, get_10k_text,              *)
(*                        scrape_edgar, map_pos_tag, lem_and_stem,         *)
(*                        add_bigrams                                      *)
(*   utils/analysis.py    cluster_companies_by_main_topic                  *)
(* Python strings are sequences of one-character strings, Python lists are *)
(* sequences, and a Python dict is an insertion-ordered sequence of        *)
(* <<key, value>> pairs with unique keys.                                  *)
(***************************************************************************)
EXTENDS Integers, Sequences, FiniteSets, TLC

VARIABLES
    \* convert_attr_to_dict
    attr, result, a_pc,
    \* get_10k_text
    rawdoc, pos, start_recording, headers, text, g_pc,
    \* scrape_edgar
    urls, s_idx, documents, section_headers, s_pc,
    \* lem_and_stem
    tagged, stopwords, processed_text, l_pc,
    \* add_bigrams
    bg_input, bg_text, bg_idx, bigram_out, b_pc,
    \* cluster_companies_by_main_topic
    num_topics, companies, c_idx, mod_pred, cluster, c_pc

attrVars == <<attr, result, a_pc>>
getVars == <<rawdoc, pos, start_recording, headers, text, g_pc>>
scrapeVars == <<urls, s_idx, documents, section_headers, s_pc>>
lemVars == <<tagged, stopwords, processed_text, l_pc>>
bigramVars == <<bg_input, bg_text, bg_idx, bigram_out, b_pc>>
clusterVars == <<num_topics, companies, c_idx, mod_pred, cluster, c_pc>>
vars == <<attrVars, getVars, scrapeVars, lemVars, bigramVars, clusterVars>>

\* the variables a function does not touch
notAttrVars == <<getVars, scrapeVars, lemVars, bigramVars, clusterVars>>
notGetVars == <<attrVars, scrapeVars, lemVars, bigramVars, clusterVars>>
notScrapeVars == <<attrVars, getVars, lemVars, bigramVars, clusterVars>>
notLemVars == <<attrVars, getVars, scrapeVars, bigramVars, clusterVars>>
notBigramVars == <<attrVars, getVars, scrapeVars, lemVars, clusterVars>>
notClusterVars == <<attrVars, getVars, scrapeVars, lemVars, bigramVars>>

(***************************************************************************)
(* Python built-ins used by the code.                                      *)
(***************************************************************************)

\* str.split(sep) for a one-character separator: always Len >= 1 pieces.
RECURSIVE SplitFrom(_, _, _, _, _)
SplitFrom(s, sep, i, cur, acc) ==
    IF i > Len(s) THEN Append(acc, cur)
    ELSE IF s[i] = sep THEN SplitFrom(s, sep, i + 1, <<>>, Append(acc, cur))
    ELSE SplitFrom(s, sep, i + 1, Append(cur, s[i]), acc)

Split(s, sep) == SplitFrom(s, sep, 1, <<>>, <<>>)

\* dict: key in d, d[key], d.get(key) (None is modelled by the default), d[key] = value
DictKeys(d) == {d[i][1] : i \in 1..Len(d)}

DictHas(d, k) == k \in DictKeys(d)

DictGet(d, k, default) ==
    IF DictHas(d, k) THEN d[CHOOSE i \in 1..Len(d) : d[i][1] = k][2] ELSE default

DictSet(d, k, v) ==
    IF DictHas(d, k)
    THEN [i \in 1..Len(d) |-> IF d[i][1] = k THEN <<k, v>> ELSE d[i]]
    ELSE Append(d, <<k, v>>)

\* the value d.get(key) returns for a missing key
None == <<"None">>

(***************************************************************************)
(* convert_attr_to_dict                                                    *)
(***************************************************************************)

\* a mutation of IsPair: "at least two parts" instead of "exactly two"
IsPairLoose(pair) == Len(pair) >= 2

\* if len(pair) == 2
IsPair(pair) == Len(pair) = 2

\* for pair in attrlist: ... result[key] = value
RECURSIVE AttrLoop(_, _, _)
AttrLoop(attrlist, i, res) ==
    IF i > Len(attrlist) THEN res
    ELSE LET pair == attrlist[i]
         IN  IF IsPair(pair)
             THEN AttrLoop(attrlist, i + 1, DictSet(res, pair[1], pair[2]))
             ELSE AttrLoop(attrlist, i + 1, res)

convert_attr_to_dict(a) ==
    LET segs == Split(a, ";")
        attrlist == [i \in 1..Len(segs) |-> Split(segs[i], ":")]
    IN  AttrLoop(attrlist, 1, <<>>)

MaxAttrLen == 5
AttrChars == {"a", "b", ":", ";"}
ExampleAttr == <<"f", "o", "n", "t", "-", "w", "e", "i", "g", "h", "t", ":", "b", "o", "l", "d", ";", "b", "a", "d", ";", "f", "o", "n", "t", "-", "s", "i", "z", "e", ":", "1", "1", "p", "t">>
AttrInputs == UNION {[1..n -> AttrChars] : n \in 0..MaxAttrLen} \cup {ExampleAttr}

InitAttr ==
    /\ attr \in AttrInputs
    /\ result = <<>>
    /\ a_pc = "start"
    /\ rawdoc = <<>>
    /\ pos = 1
    /\ start_recording = FALSE
    /\ headers = <<>>
    /\ text = <<>>
    /\ g_pc = "idle"
    /\ urls = <<>>
    /\ s_idx = 1
    /\ documents = <<>>
    /\ section_headers = <<>>
    /\ s_pc = "idle"
    /\ tagged = <<>>
    /\ stopwords = {}
    /\ processed_text = <<>>
    /\ l_pc = "idle"
    /\ bg_input = <<>>
    /\ bg_text = <<>>
    /\ bg_idx = 1
    /\ bigram_out = <<>>
    /\ b_pc = "idle"
    /\ num_topics = 0
    /\ companies = <<>>
    /\ c_idx = 1
    /\ mod_pred = <<>>
    /\ cluster = <<>>
    /\ c_pc = "idle"

AttrApply ==
    /\ a_pc = "start"
    /\ result' = convert_attr_to_dict(attr)
    /\ a_pc' = "returned"
    /\ UNCHANGED attr
    /\ UNCHANGED notAttrVars

NextAttr == AttrApply

(***************************************************************************)
(* get_10k_text                                                            *)
(***************************************************************************)

FontWeight == <<"f", "o", "n", "t", "-", "w", "e", "i", "g", "h", "t">>
Bold == <<"b", "o", "l", "d">>
Business == <<"b", "u", "s", "i", "n", "e", "s", "s">>
RiskFactors == <<"r", "i", "s", "k", " ", "f", "a", "c", "t", "o", "r", "s">>

UpperAlpha == <<"A", "B", "C", "D", "E", "F", "G", "H", "I", "J", "K", "L", "M", "N", "O", "P", "Q", "R", "S", "T", "U", "V", "W", "X", "Y", "Z">>
LowerAlpha == <<"a", "b", "c", "d", "e", "f", "g", "h", "i", "j", "k", "l", "m", "n", "o", "p", "q", "r", "s", "t", "u", "v", "w", "x", "y", "z">>

\* str.lower()
LowerChar(c) ==
    IF \E k \in 1..Len(UpperAlpha) : UpperAlpha[k] = c
    THEN LowerAlpha[CHOOSE k \in 1..Len(UpperAlpha) : UpperAlpha[k] = c]
    ELSE c

Lower(s) == [i \in 1..Len(s) |-> LowerChar(s[i])]

\* sub in s
Contains(sub, s) ==
    \E i \in 1..(Len(s) - Len(sub) + 1) : SubSeq(s, i, i + Len(sub) - 1) = sub

\* A top-level body node: style is the style attribute of its nested font
\* element, or NoStyle when data.find('font')['style'] raises (no font element,
\* no style attribute, a bare string node); text is data.text.
NoStyle == <<"NoStyle">>

StyleBoldSemi == <<"f", "o", "n", "t", "-", "f", "a", "m", "i", "l", "y", ":", "H", "e", "l", "v", "e", "t", "i", "c", "a", ";", "f", "o", "n", "t", "-", "w", "e", "i", "g", "h", "t", ":", "b", "o", "l", "d", ";">>
StylePlain == <<"f", "o", "n", "t", "-", "s", "i", "z", "e", ":", "1", "1", "p", "t">>
TxtBusiness == <<"I", "t", "e", "m", " ", "1", ".", " ", "B", "u", "s", "i", "n", "e", "s", "s">>
TxtRisk == <<"I", "t", "e", "m", " ", "1", "A", ".", " ", "R", "i", "s", "k", " ", "F", "a", "c", "t", "o", "r", "s">>
TxtBoth == <<"B", "u", "s", "i", "n", "e", "s", "s", " ", "R", "i", "s", "k", " ", "F", "a", "c", "t", "o", "r", "s">>
TxtOverview == <<"O", "v", "e", "r", "v", "i", "e", "w">>

\* the length above which a recorded header is taken for body text
HeaderRepairLen == 100

\* a text of n characters that starts with "business"
LongText(n) == [i \in 1..n |-> IF i <= Len(Business) THEN Business[i] ELSE "x"]

\* the style attributes and node texts of the model
NodeStyles == {NoStyle, StyleBoldSemi, StylePlain}
NodeTexts == {TxtBusiness, TxtRisk, TxtBoth, TxtOverview}
LongTexts == {LongText(HeaderRepairLen), LongText(HeaderRepairLen + 1)}

\* convert_attr_to_dict(style) and text.lower() for each of them, evaluated once
AttributesOf == [st \in NodeStyles \ {NoStyle} |-> convert_attr_to_dict(st)]
LowerOf == [t \in NodeTexts \cup LongTexts |-> Lower(t)]

\* attributes.get('font-weight') == 'bold'
IsHeader(node) == DictGet(AttributesOf[node.style], FontWeight, None) = Bold

\* 'business' in data.text.lower()
HasStart(node) == Contains(Business, LowerOf[node.text])

\* 'risk factors' in data.text.lower()
HasEnd(node) == Contains(RiskFactors, LowerOf[node.text])

\* a mutation of LoopBody: the header is recorded before the end marker is tested
LoopBodyRecordsEnd(st, node) ==
    IF node.style = NoStyle THEN st
    ELSE IF IsHeader(node)
    THEN LET rec == st.start_recording \/ HasStart(node)
             hs == IF rec THEN Append(st.headers, node.text) ELSE st.headers
         IN  [st EXCEPT !.start_recording = rec, !.headers = hs, !.brk = HasEnd(node)]
    ELSE IF st.start_recording
         THEN [st EXCEPT !.text = Append(@, node.text)]
         ELSE st

\* a mutation of LoopBody: paragraphs are recorded whether or not recording started
LoopBodyAlwaysText(st, node) ==
    IF node.style = NoStyle THEN st
    ELSE IF IsHeader(node)
    THEN LET rec == st.start_recording \/ HasStart(node)
         IN  IF HasEnd(node)
             THEN [st EXCEPT !.start_recording = rec, !.brk = TRUE]
             ELSE IF rec
                  THEN [st EXCEPT !.start_recording = rec,
                                  !.headers = Append(@, node.text)]
                  ELSE st
    ELSE [st EXCEPT !.text = Append(@, node.text)]

\* One iteration of "for data in rawdoc.html.body"; st holds start_recording,
\* headers, text and brk (the break was taken).
LoopBody(st, node) ==
    IF node.style = NoStyle
    THEN st                                   \* except: continue
    ELSE IF IsHeader(node)
    THEN LET rec == st.start_recording \/ HasStart(node)
         IN  IF HasEnd(node)
             THEN [st EXCEPT !.start_recording = rec, !.brk = TRUE]
             ELSE IF rec
                  THEN [st EXCEPT !.start_recording = rec,
                                  !.headers = Append(@, node.text)]
                  ELSE st
    ELSE IF st.start_recording
         THEN [st EXCEPT !.text = Append(@, node.text)]
         ELSE st

\* The response to requests.get(url) as BeautifulSoup sees it: the fetch raises,
\* the document has no html/body node sequence, or it has one.
FetchError == [kind |-> "fetch_error", body |-> <<>>]
NoBody == [kind |-> "no_body", body |-> <<>>]
Doc(nodes) == [kind |-> "nodes", body |-> nodes]

MaxNodes == 3
Nodes == [style : NodeStyles, text : NodeTexts]
GetDocs == {FetchError, NoBody} \cup {Doc(b) : b \in UNION {[1..n -> Nodes] : n \in 0..MaxNodes}}

InitGet ==
    /\ rawdoc \in GetDocs
    /\ pos = 1
    /\ start_recording = FALSE
    /\ headers = <<>>
    /\ text = <<>>
    /\ g_pc = "start"
    /\ attr = <<>>
    /\ result = <<>>
    /\ a_pc = "idle"
    /\ urls = <<>>
    /\ s_idx = 1
    /\ documents = <<>>
    /\ section_headers = <<>>
    /\ s_pc = "idle"
    /\ tagged = <<>>
    /\ stopwords = {}
    /\ processed_text = <<>>
    /\ l_pc = "idle"
    /\ bg_input = <<>>
    /\ bg_text = <<>>
    /\ bg_idx = 1
    /\ bigram_out = <<>>
    /\ b_pc = "idle"
    /\ num_topics = 0
    /\ companies = <<>>
    /\ c_idx = 1
    /\ mod_pred = <<>>
    /\ cluster = <<>>
    /\ c_pc = "idle"

\* rawdoc = BeautifulSoup(requests.get(url).content, 'html.parser'), then
\* rawdoc.html.body is taken for iteration: either raises, outside the try.
GetFetch ==
    /\ g_pc = "start"
    /\ g_pc' = IF rawdoc.kind = "nodes" THEN "loop" ELSE "raised"
    /\ UNCHANGED <<rawdoc, pos, start_recording, headers, text>>
    /\ UNCHANGED notGetVars

\* one iteration of the loop over the body nodes; a break goes to the return
GetNode ==
    /\ g_pc = "loop"
    /\ pos <= Len(rawdoc.body)
    /\ \E st \in {LoopBody([start_recording |-> start_recording, headers |-> headers,
                            text |-> text, brk |-> FALSE], rawdoc.body[pos])} :
           /\ start_recording' = st.start_recording
           /\ headers' = st.headers
           /\ text' = st.text
           /\ IF st.brk
              THEN g_pc' = "returned" /\ pos' = pos
              ELSE g_pc' = "loop" /\ pos' = pos + 1
    /\ UNCHANGED rawdoc
    /\ UNCHANGED notGetVars

\* the node sequence is exhausted: return headers, text
GetReturn ==
    /\ g_pc = "loop"
    /\ pos > Len(rawdoc.body)
    /\ g_pc' = "returned"
    /\ UNCHANGED <<rawdoc, pos, start_recording, headers, text>>
    /\ UNCHANGED notGetVars

NextGet == GetFetch \/ GetNode \/ GetReturn

\* get_10k_text as a function of the fetched document
RECURSIVE GetLoop(_, _, _)
GetLoop(body, i, st) ==
    IF i > Len(body) \/ st.brk THEN st
    ELSE GetLoop(body, i + 1, LoopBody(st, body[i]))

get_10k_text(doc) ==
    IF doc.kind # "nodes"
    THEN [raised |-> TRUE, headers |-> <<>>, text |-> <<>>]
    ELSE LET st == GetLoop(doc.body, 1, [start_recording |-> FALSE, headers |-> <<>>,
                                         text |-> <<>>, brk |-> FALSE])
         IN  [raised |-> FALSE, headers |-> st.headers, text |-> st.text]

(***************************************************************************)
(* scrape_edgar                                                            *)
(***************************************************************************)

\* a mutation of IsLongHeader: the threshold is inclusive
IsLongHeaderInclusive(header) == Len(header) >= HeaderRepairLen

\* if len(header) > 100
IsLongHeader(header) == Len(header) > HeaderRepairLen

\* for header in headers: if len(header) > 100: documents[company].append(header)
RECURSIVE RepairLoop(_, _, _)
RepairLoop(doc, hs, i) ==
    IF i > Len(hs) THEN doc
    ELSE IF IsLongHeader(hs[i]) THEN RepairLoop(Append(doc, hs[i]), hs, i + 1)
    ELSE RepairLoop(doc, hs, i + 1)

\* if doc
Truthy(doc) == doc # <<>>

MaxSources == 2
CompanyKeys == {"A", "B", "C"}
ScrapeNodes ==
    { [style |-> StyleBoldSemi, text |-> LongText(HeaderRepairLen + 1)],
      [style |-> StyleBoldSemi, text |-> LongText(HeaderRepairLen)],
      [style |-> StyleBoldSemi, text |-> TxtBusiness],
      [style |-> StylePlain, text |-> TxtOverview] }
ScrapeDocs == {FetchError, NoBody} \cup {Doc(b) : b \in UNION {[1..n -> ScrapeNodes] : n \in 0..2}}

\* get_10k_text(url) for every document of the model, evaluated once
Scraped == [d \in ScrapeDocs |-> get_10k_text(d)]

\* urls: an insertion-ordered mapping company -> url; a url stands for the
\* document the web serves for it
UrlMaps ==
    UNION { { u \in [1..n -> CompanyKeys \X ScrapeDocs] :
                \A i, j \in 1..n : u[i][1] = u[j][1] => i = j } : n \in 0..MaxSources }

InitScrape ==
    /\ urls \in UrlMaps
    /\ s_idx = 1
    /\ documents = <<>>
    /\ section_headers = <<>>
    /\ s_pc = "loop"
    /\ attr = <<>>
    /\ result = <<>>
    /\ a_pc = "idle"
    /\ rawdoc = <<>>
    /\ pos = 1
    /\ start_recording = FALSE
    /\ headers = <<>>
    /\ text = <<>>
    /\ g_pc = "idle"
    /\ tagged = <<>>
    /\ stopwords = {}
    /\ processed_text = <<>>
    /\ l_pc = "idle"
    /\ bg_input = <<>>
    /\ bg_text = <<>>
    /\ bg_idx = 1
    /\ bigram_out = <<>>
    /\ b_pc = "idle"
    /\ num_topics = 0
    /\ companies = <<>>
    /\ c_idx = 1
    /\ mod_pred = <<>>
    /\ cluster = <<>>
    /\ c_pc = "idle"

\* headers, doc = get_10k_text(url) raises: nothing in scrape_edgar catches it
ScrapeRaise ==
    /\ s_pc = "loop"
    /\ s_idx <= Len(urls)
    /\ Scraped[urls[s_idx][2]].raised
    /\ s_pc' = "raised"
    /\ UNCHANGED <<urls, s_idx, documents, section_headers>>
    /\ UNCHANGED notScrapeVars

\* if doc: keep the company, record its headers, append its long headers
ScrapeKeep ==
    /\ s_pc = "loop"
    /\ s_idx <= Len(urls)
    /\ LET company == urls[s_idx][1]
           r == Scraped[urls[s_idx][2]]
       IN  /\ ~r.raised
           /\ Truthy(r.text)
           /\ documents' = DictSet(documents, company, RepairLoop(r.text, r.headers, 1))
           /\ section_headers' = DictSet(section_headers, company, r.headers)
    /\ s_idx' = s_idx + 1
    /\ UNCHANGED <<urls, s_pc>>
    /\ UNCHANGED notScrapeVars

\* doc is empty: the company is skipped
ScrapeDrop ==
    /\ s_pc = "loop"
    /\ s_idx <= Len(urls)
    /\ LET r == Scraped[urls[s_idx][2]]
       IN  ~r.raised /\ ~Truthy(r.text)
    /\ s_idx' = s_idx + 1
    /\ UNCHANGED <<urls, documents, section_headers, s_pc>>
    /\ UNCHANGED notScrapeVars

\* return documents
ScrapeReturn ==
    /\ s_pc = "loop"
    /\ s_idx > Len(urls)
    /\ s_pc' = "returned"
    /\ UNCHANGED <<urls, s_idx, documents, section_headers>>
    /\ UNCHANGED notScrapeVars

NextScrape == ScrapeRaise \/ ScrapeKeep \/ ScrapeDrop \/ ScrapeReturn

(***************************************************************************)
(* map_pos_tag, lem_and_stem                                               *)
(***************************************************************************)

\* wn.NOUN, wn.ADJ, wn.VERB, wn.ADV
WnNoun == "n"
WnAdj == "a"
WnVerb == "v"
WnAdv == "r"

\* pos[:2]
Prefix2(s) == SubSeq(s, 1, IF Len(s) < 2 THEN Len(s) ELSE 2)

\* a mutation of map_pos_tag: an unrecognized tag defaults to adjective
map_pos_tag_default_adj(p) ==
    LET q == Prefix2(p)
    IN  IF q = <<"N", "N">> THEN WnNoun
        ELSE IF q = <<"J", "J">> THEN WnAdj
        ELSE IF q = <<"V", "B">> THEN WnVerb
        ELSE IF q = <<"R", "B">> THEN WnAdv
        ELSE WnAdj

map_pos_tag(p) ==
    LET q == Prefix2(p)
    IN  IF q = <<"N", "N">> THEN WnNoun
        ELSE IF q = <<"J", "J">> THEN WnAdj
        ELSE IF q = <<"V", "B">> THEN WnVerb
        ELSE IF q = <<"R", "B">> THEN WnAdv
        ELSE WnNoun

TokCompany == <<"c", "o", "m", "p", "a", "n", "y">>
TokCompanies == <<"c", "o", "m", "p", "a", "n", "i", "e", "s">>
TokRunning == <<"r", "u", "n", "n", "i", "n", "g">>
TokThe == <<"t", "h", "e">>
TokThis == <<"t", "h", "i", "s">>
StemCompani == <<"c", "o", "m", "p", "a", "n", "i">>
StemRun == <<"r", "u", "n">>
StemThi == <<"t", "h", "i">>

\* WordNetLemmatizer().lemmatize(token, pos) on the tokens of the model
Lemmatize(token, p) ==
    IF p = WnNoun /\ token = TokCompanies THEN TokCompany
    ELSE IF p = WnVerb /\ token = TokRunning THEN StemRun
    ELSE token

\* PorterStemmer().stem(token) on the tokens of the model
Stem(token) ==
    IF token = TokCompany THEN StemCompani
    ELSE IF token = TokCompanies THEN StemCompani
    ELSE IF token = TokRunning THEN StemRun
    ELSE IF token = TokThis THEN StemThi
    ELSE token

\* len(token) > 3
LongEnough(token) == Len(token) > 3

\* for token, pos in text: ...
RECURSIVE LemLoop(_, _, _, _)
LemLoop(txt, stops, i, out) ==
    IF i > Len(txt) THEN out
    ELSE LET token == txt[i][1]
             p == map_pos_tag(txt[i][2])
         IN  IF ~(p = WnNoun) THEN LemLoop(txt, stops, i + 1, out)
             ELSE IF token \notin stops /\ LongEnough(token)
             THEN LET processed_token == Stem(Lemmatize(token, p))
                  IN  IF processed_token \notin stops
                      THEN LemLoop(txt, stops, i + 1, Append(out, processed_token))
                      ELSE LemLoop(txt, stops, i + 1, out)
             ELSE LemLoop(txt, stops, i + 1, out)

lem_and_stem(txt, stops) == LemLoop(txt, stops, 1, <<>>)

MaxTokens == 2
LemTokens == {TokCompany, TokCompanies, TokRunning, TokThe, TokThis}
LemTags == {<<"N", "N">>, <<"N", "N", "S">>, <<"V", "B">>, <<"J", "J">>, <<"R", "B">>, <<".">>}
StopwordSets == SUBSET {TokThe, TokThis, StemCompani}

InitLem ==
    /\ tagged \in UNION {[1..n -> LemTokens \X LemTags] : n \in 0..MaxTokens}
    /\ stopwords \in StopwordSets
    /\ processed_text = <<>>
    /\ l_pc = "start"
    /\ attr = <<>>
    /\ result = <<>>
    /\ a_pc = "idle"
    /\ rawdoc = <<>>
    /\ pos = 1
    /\ start_recording = FALSE
    /\ headers = <<>>
    /\ text = <<>>
    /\ g_pc = "idle"
    /\ urls = <<>>
    /\ s_idx = 1
    /\ documents = <<>>
    /\ section_headers = <<>>
    /\ s_pc = "idle"
    /\ bg_input = <<>>
    /\ bg_text = <<>>
    /\ bg_idx = 1
    /\ bigram_out = <<>>
    /\ b_pc = "idle"
    /\ num_topics = 0
    /\ companies = <<>>
    /\ c_idx = 1
    /\ mod_pred = <<>>
    /\ cluster = <<>>
    /\ c_pc = "idle"

LemApply ==
    /\ l_pc = "start"
    /\ processed_text' = lem_and_stem(tagged, stopwords)
    /\ l_pc' = "returned"
    /\ UNCHANGED <<tagged, stopwords>>
    /\ UNCHANGED notLemVars

NextLem == LemApply

(***************************************************************************)
(* add_bigrams                                                             *)
(***************************************************************************)

\* '_' in token
HasMarker(token) == \E i \in 1..Len(token) : token[i] = "_"

\* a mutation of AppendBigrams: the detector's output replaces the document
ReplaceByBigrams(doc, out) == SelectSeq(out, HasMarker)

\* for token in bigram[text[idx]]: if '_' in token: text[idx].append(token)
RECURSIVE AppendFrom(_, _, _)
AppendFrom(doc, out, i) ==
    IF i > Len(out) THEN doc
    ELSE IF HasMarker(out[i]) THEN AppendFrom(Append(doc, out[i]), out, i + 1)
    ELSE AppendFrom(doc, out, i + 1)

AppendBigrams(doc, out) == AppendFrom(doc, out, 1)

MaxDocs == 2
MaxDocLen == 1
MaxDetected == 2
BgTokens == {<<"a">>, <<"a", "_", "b">>}
BgDocs == UNION {[1..n -> BgTokens] : n \in 0..MaxDocLen}
\* what bigram[text[idx]] may return: any sequence of unigrams and joined tokens
DetectorOutputs == UNION {[1..n -> BgTokens] : n \in 0..MaxDetected}

InitBigram ==
    /\ bg_input \in UNION {[1..n -> BgDocs] : n \in 0..MaxDocs}
    /\ bg_text = bg_input
    /\ bg_idx = 1
    /\ bigram_out = <<>>
    /\ b_pc = "fit"
    /\ attr = <<>>
    /\ result = <<>>
    /\ a_pc = "idle"
    /\ rawdoc = <<>>
    /\ pos = 1
    /\ start_recording = FALSE
    /\ headers = <<>>
    /\ text = <<>>
    /\ g_pc = "idle"
    /\ urls = <<>>
    /\ s_idx = 1
    /\ documents = <<>>
    /\ section_headers = <<>>
    /\ s_pc = "idle"
    /\ tagged = <<>>
    /\ stopwords = {}
    /\ processed_text = <<>>
    /\ l_pc = "idle"
    /\ num_topics = 0
    /\ companies = <<>>
    /\ c_idx = 1
    /\ mod_pred = <<>>
    /\ cluster = <<>>
    /\ c_pc = "idle"

\* bigram = Phraser(text, min_count=20): the detector is built, or the call raises
BigramFit ==
    /\ b_pc = "fit"
    /\ \E ok \in BOOLEAN : b_pc' = IF ok THEN "loop" ELSE "raised"
    /\ UNCHANGED <<bg_input, bg_text, bg_idx, bigram_out>>
    /\ UNCHANGED notBigramVars

\* one iteration of "for idx in range(len(text))"
BigramDoc ==
    /\ b_pc = "loop"
    /\ bg_idx <= Len(bg_text)
    /\ \E out \in DetectorOutputs :
          /\ bigram_out' = out
          /\ bg_text' = [bg_text EXCEPT ![bg_idx] = AppendBigrams(@, out)]
    /\ bg_idx' = bg_idx + 1
    /\ UNCHANGED <<bg_input, b_pc>>
    /\ UNCHANGED notBigramVars

\* return text
BigramReturn ==
    /\ b_pc = "loop"
    /\ bg_idx > Len(bg_text)
    /\ b_pc' = "returned"
    /\ UNCHANGED <<bg_input, bg_text, bg_idx, bigram_out>>
    /\ UNCHANGED notBigramVars

NextBigram == BigramFit \/ BigramDoc \/ BigramReturn

(***************************************************************************)
(* cluster_companies_by_main_topic                                         *)
(***************************************************************************)

\* a mutation of RangeKeys: the buckets are numbered from one
RangeKeysFromOne(n) == 1..n

\* range(num_topics)
RangeKeys(n) == 0..(n - 1)

\* max(weights), for a non-empty list
MaxOf(weights) ==
    CHOOSE w \in {weights[i] : i \in 1..Len(weights)} :
        \A i \in 1..Len(weights) : weights[i] <= w

\* a mutation of IndexOf: the last position of the value
LastIndexOf(weights, w) ==
    CHOOSE i \in 1..Len(weights) :
        weights[i] = w /\ \A j \in (i + 1)..Len(weights) : weights[j] # w

\* weights.index(w): the first position of the value
IndexOf(weights, w) ==
    CHOOSE i \in 1..Len(weights) :
        weights[i] = w /\ \A j \in 1..(i - 1) : weights[j] # w

\* a mutation of AssignBody: an empty weight list skips the company
AssignBodySkipsEmpty(cl, pred, company) ==
    IF pred = <<>> THEN [raised |-> FALSE, cluster |-> cl]
    ELSE LET weights == [i \in 1..Len(pred) |-> pred[i][2]]
             max_topic == pred[IndexOf(weights, MaxOf(weights))][1]
         IN  IF max_topic \notin DOMAIN cl THEN [raised |-> TRUE, cluster |-> cl]
             ELSE [raised |-> FALSE,
                   cluster |-> [cl EXCEPT ![max_topic] = Append(@, company)]]

\* The body of the loop after the model's answer: raised is the ValueError of
\* max([]) or the KeyError of cluster[max_topic].
AssignBody(cl, pred, company) ==
    IF pred = <<>> THEN [raised |-> TRUE, cluster |-> cl]
    ELSE LET weights == [i \in 1..Len(pred) |-> pred[i][2]]
             idx_max == IndexOf(weights, MaxOf(weights))
             max_topic == pred[idx_max][1]
         IN  IF max_topic \notin DOMAIN cl THEN [raised |-> TRUE, cluster |-> cl]
             ELSE [raised |-> FALSE,
                   cluster |-> [cl EXCEPT ![max_topic] = Append(@, company)]]

MaxCompanies == 2
MaxPairs == 2
NumTopicsRange == {0, 1, 2}
PairTopics == {0, 1, 2}
\* weights in tenths
Weights == {1, 2, 8, 9}
SourceKeys == {"A", "B"}
\* what lda[corpus[idx]] may return
Predictions == UNION {[1..n -> PairTopics \X Weights] : n \in 0..MaxPairs}

\* cluster = {}; for i in range(num_topics): cluster[i] = []
InitCluster ==
    /\ num_topics \in NumTopicsRange
    /\ companies \in UNION {[1..n -> SourceKeys] : n \in 0..MaxCompanies}
    /\ c_idx = 1
    /\ mod_pred = <<>>
    /\ cluster = [t \in RangeKeys(num_topics) |-> <<>>]
    /\ c_pc = "loop"
    /\ attr = <<>>
    /\ result = <<>>
    /\ a_pc = "idle"
    /\ rawdoc = <<>>
    /\ pos = 1
    /\ start_recording = FALSE
    /\ headers = <<>>
    /\ text = <<>>
    /\ g_pc = "idle"
    /\ urls = <<>>
    /\ s_idx = 1
    /\ documents = <<>>
    /\ section_headers = <<>>
    /\ s_pc = "idle"
    /\ tagged = <<>>
    /\ stopwords = {}
    /\ processed_text = <<>>
    /\ l_pc = "idle"
    /\ bg_input = <<>>
    /\ bg_text = <<>>
    /\ bg_idx = 1
    /\ bigram_out = <<>>
    /\ b_pc = "idle"

\* mod_pred = lda[corpus[idx]]
ClusterQuery ==
    /\ c_pc = "loop"
    /\ c_idx <= Len(companies)
    /\ mod_pred' \in Predictions
    /\ c_pc' = "have_pred"
    /\ UNCHANGED <<num_topics, companies, c_idx, cluster>>
    /\ UNCHANGED notClusterVars

\* The rest of the iteration. mod_pred is not read again before the next
\* iteration assigns it, so it is cleared when the iteration completes.
ClusterAssign ==
    /\ c_pc = "have_pred"
    /\ LET r == AssignBody(cluster, mod_pred, companies[c_idx])
       IN  IF r.raised
           THEN /\ c_pc' = "raised"
                /\ UNCHANGED <<c_idx, mod_pred, cluster>>
           ELSE /\ c_pc' = "loop"
                /\ c_idx' = c_idx + 1
                /\ mod_pred' = <<>>
                /\ cluster' = r.cluster
    /\ UNCHANGED <<num_topics, companies>>
    /\ UNCHANGED notClusterVars

\* return cluster
ClusterReturn ==
    /\ c_pc = "loop"
    /\ c_idx > Len(companies)
    /\ c_pc' = "returned"
    /\ UNCHANGED <<num_topics, companies, c_idx, mod_pred, cluster>>
    /\ UNCHANGED notClusterVars

NextCluster == ClusterQuery \/ ClusterAssign \/ ClusterReturn

(***************************************************************************)
(* Specifications: one per function; the variables of the other functions  *)
(* stay idle.                                                              *)
(***************************************************************************)

SpecAttr == InitAttr /\ [][NextAttr]_vars
SpecGet == InitGet /\ [][NextGet]_vars
SpecScrape == InitScrape /\ [][NextScrape]_vars
SpecLem == InitLem /\ [][NextLem]_vars
SpecBigram == InitBigram /\ [][NextBigram]_vars
SpecCluster == InitCluster /\ [][NextCluster]_vars

(***************************************************************************)
(* Properties of convert_attr_to_dict (checked under SpecAttr)             *)
(***************************************************************************)

\* The ';'-delimited segments of s, found from the positions of the ';'
\* characters: <<first, last>> index pairs (first = last + 1 for an empty one).
SegmentBounds(s) ==
    LET cuts == {0, Len(s) + 1} \cup {i \in 1..Len(s) : s[i] = ";"}
    IN  { <<b + 1, e - 1>> : <<b, e>> \in
            { c \in cuts \X cuts : c[1] < c[2] /\ ~\E m \in cuts : c[1] < m /\ m < c[2] } }

SegmentText(s, seg) == SubSeq(s, seg[1], seg[2])

\* a well-formed key:value pair has exactly one colon
Colons(t) == {i \in 1..Len(t) : t[i] = ":"}
WellFormed(t) == Cardinality(Colons(t)) = 1
KeyOf(t) == SubSeq(t, 1, (CHOOSE i \in Colons(t) : TRUE) - 1)
ValueOf(t) == SubSeq(t, (CHOOSE i \in Colons(t) : TRUE) + 1, Len(t))

WellFormedSegments(s) == {seg \in SegmentBounds(s) : WellFormed(SegmentText(s, seg))}

\* every entry of the result comes from a well-formed segment
OnlyWellFormed ==
    \A i \in 1..Len(result) :
        \E seg \in WellFormedSegments(attr) :
            /\ KeyOf(SegmentText(attr, seg)) = result[i][1]
            /\ ValueOf(SegmentText(attr, seg)) = result[i][2]

K_font_size == <<"f", "o", "n", "t", "-", "s", "i", "z", "e">>
V_11pt == <<"1", "1", "p", "t">>
ExampleHolds ==
    attr = ExampleAttr => result = << <<FontWeight, Bold>>, <<K_font_size, V_11pt>> >>

\* C9 as stated: the returned mapping holds key -> value for EVERY well-formed
\* segment and nothing for a malformed one.
C9_EveryPairHeld ==
    a_pc = "returned" =>
        /\ \A seg \in WellFormedSegments(attr) :
              LET t == SegmentText(attr, seg)
              IN  DictHas(result, KeyOf(t)) /\ DictGet(result, KeyOf(t), None) = ValueOf(t)
        /\ OnlyWellFormed

\* C9 (amended): convert_attr_to_dict returns a mapping whose keys are exactly
\* the keys of the well-formed (exactly one colon) ';'-delimited segments, each
\* key held once and mapped to the untrimmed value of the LAST well-formed
\* segment with that key; malformed segments contribute nothing, the empty
\* string yields the empty mapping, and the documented example holds.
C9_LastPairHeld ==
    a_pc = "returned" =>
        /\ DictKeys(result) = {KeyOf(SegmentText(attr, seg)) : seg \in WellFormedSegments(attr)}
        /\ \A i, j \in 1..Len(result) : result[i][1] = result[j][1] => i = j
        /\ \A seg \in WellFormedSegments(attr) :
              LET t == SegmentText(attr, seg)
              IN  (\A later \in WellFormedSegments(attr) :
                        later[1] > seg[1] => KeyOf(SegmentText(attr, later)) # KeyOf(t))
                  => DictGet(result, KeyOf(t), None) = ValueOf(t)
        /\ OnlyWellFormed
        /\ (attr = <<>> => result = <<>>)
        /\ ExampleHolds

\* a returned mapping for an input with two well-formed segments sharing a key
\* with different values, and a malformed segment
C9_Witness ==
    /\ a_pc = "returned"
    /\ \E s1, s2 \in WellFormedSegments(attr) :
          /\ s1[1] < s2[1]
          /\ KeyOf(SegmentText(attr, s1)) = KeyOf(SegmentText(attr, s2))
          /\ ValueOf(SegmentText(attr, s1)) # ValueOf(SegmentText(attr, s2))
    /\ \E seg \in SegmentBounds(attr) : ~WellFormed(SegmentText(attr, seg))
    /\ result # <<>>

(***************************************************************************)
(* Properties of get_10k_text (checked under SpecGet)                      *)
(***************************************************************************)

Body == rawdoc.body

\* the classification of every node of the model, evaluated once
BoldNodes == {n \in Nodes : n.style # NoStyle /\ IsHeader(n)}
PlainNodes == {n \in Nodes : n.style # NoStyle /\ ~IsHeader(n)}
StartNodes == {n \in BoldNodes : HasStart(n)}
EndNodes == {n \in BoldNodes : HasEnd(n)}
EndTexts == {t \in NodeTexts : Contains(RiskFactors, LowerOf[t])}

\* node i was classified (its style attribute resolved) as bold
BoldAt(i) == Body[i] \in BoldNodes
PlainAt(i) == Body[i] \in PlainNodes
StartAt(i) == Body[i] \in StartNodes
EndAt(i) == Body[i] \in EndNodes

Least(S, default) == IF S = {} THEN default ELSE CHOOSE i \in S : \A j \in S : i <= j
FirstStart == Least({i \in 1..Len(Body) : StartAt(i)}, Len(Body) + 1)
FirstEnd == Least({i \in 1..Len(Body) : EndAt(i)}, Len(Body) + 1)

Running == g_pc \in {"loop", "returned"}

\* nothing beyond the first end marker is processed, and what is recorded
\* comes from nodes before it
StopsAtEnd ==
    Running =>
        /\ pos <= FirstEnd
        /\ \A k \in 1..Len(headers) :
              /\ headers[k] \notin EndTexts
              /\ \E i \in 1..(FirstEnd - 1) : BoldAt(i) /\ Body[i].text = headers[k]
        /\ \A k \in 1..Len(text) :
              \E i \in 1..(FirstEnd - 1) : PlainAt(i) /\ Body[i].text = text[k]
        /\ Len(headers) + Len(text) <= FirstEnd - 1

\* the iteration that meets the end marker records nothing and returns
EndStep ==
    (g_pc = "loop" /\ pos <= Len(Body) /\ EndAt(pos)) =>
        (g_pc' = "returned" /\ headers' = headers /\ text' = text /\ pos' = pos)

\* C4: at the first bold-classified node whose lowercased text contains
\* "risk factors", get_10k_text stops at once: that node records nothing (also
\* when recording was active or the node contains "business"), no later node is
\* processed, and nothing changes after the return.
C4_StopsAtRiskFactors ==
    /\ []StopsAtEnd
    /\ [][EndStep]_vars
    /\ [][g_pc # "returned"]_vars

\* the loop has stopped at an end marker that also contains "business", while
\* recording was active with a header recorded, with nodes left unprocessed
C4_Witness ==
    /\ g_pc = "returned"
    /\ pos < Len(Body)
    /\ EndAt(pos) /\ StartAt(pos)
    /\ FirstStart < pos
    /\ headers # <<>>

\* something is recorded only with recording active
RecordsOnlyWhileRecording ==
    (headers' # headers \/ text' # text) => start_recording'

\* recording changes only from inactive to active, at a bold "business" node
RecordingStartsAtStart ==
    (start_recording' # start_recording) =>
        (~start_recording /\ start_recording' /\ g_pc = "loop" /\ StartAt(pos))

\* what is recorded lies at or after the first start marker, and a document
\* with a node sequence never raises
RecordedAfterStart ==
    Running =>
        /\ Len(headers) + Len(text) <= (IF pos > FirstStart THEN pos - FirstStart ELSE 0)
        /\ (start_recording => FirstStart <= pos)
        /\ ((headers # <<>> \/ text # <<>>) => start_recording /\ FirstStart <= Len(Body))
        /\ (g_pc = "returned" /\ FirstStart > Len(Body) => headers = <<>> /\ text = <<>>)

\* C5: text is appended to headers or text only while recording is active;
\* recording becomes active only at a bold-classified node containing
\* "business" and never becomes inactive; every recorded node lies at or after
\* the first such node; with no such node the result is ([], []), no error.
C5_RecordingWindow ==
    /\ [][RecordsOnlyWhileRecording]_vars
    /\ [][RecordingStartsAtStart]_vars
    /\ []RecordedAfterStart
    /\ [](rawdoc # <<>> /\ rawdoc.kind = "nodes" => g_pc # "raised")

\* a returned extraction whose recording started after the first node and
\* recorded a header and a paragraph
C5_Witness ==
    /\ g_pc = "returned"
    /\ FirstStart > 1
    /\ start_recording
    /\ headers # <<>>
    /\ text # <<>>

(***************************************************************************)
(* Properties of scrape_edgar (checked under SpecScrape)                   *)
(***************************************************************************)

\* the sources already iterated over
Done == SubSeq(urls, 1, s_idx - 1)

HasText(u) == ~Scraped[u[2]].raised /\ Scraped[u[2]].text # <<>>
LongHeader(h) == Len(h) > HeaderRepairLen

\* the entry scrape_edgar is to hold for a kept source
ExpectedEntry(u) ==
    <<u[1], Scraped[u[2]].text \o SelectSeq(Scraped[u[2]].headers, LongHeader)>>

\* C6 as stated: no exception leaves scrape_edgar because of a bad source; the
\* source counts as a zero-text result and the others are still returned.
C6_NoExceptionPropagates ==
    /\ s_pc # "raised"
    /\ (s_pc = "returned" =>
           \A i \in 1..Len(urls) : HasText(urls[i]) => DictHas(documents, urls[i][1]))

ReducedIsNoun(tag) == Prefix2(tag) \notin {<<"J", "J">>, <<"V", "B">>, <<"R", "B">>}

StemmedLemma(token) == Stem(Lemmatize(token, WnNoun))

Retained(pair) ==
    /\ ReducedIsNoun(pair[2])
    /\ Len(pair[1]) > 3
    /\ pair[1] \notin stopwords
    /\ StemmedLemma(pair[1]) \notin stopwords

\* C8: lem_and_stem outputs, in input order, the stemmed lemma of exactly the
\* tokens whose reduced part of speech is noun (unrecognized tags default to
\* noun), that are longer than 3 characters, that are not stopwords and whose
\* stemmed lemma is not a stopword; ("running", "VB") is dropped and
\* ("company", "NN") yields "compani".
C8_RetainedTokens ==
    l_pc = "returned" =>
        /\ LET kept == SelectSeq(tagged, Retained)
           IN  processed_text = [i \in 1..Len(kept) |-> StemmedLemma(kept[i][1])]
        /\ (tagged = << <<TokRunning, <<"V", "B">> >> >> => processed_text = <<>>)
        /\ (tagged = << <<TokCompany, <<"N", "N">> >> >> /\ stopwords = {TokThe}
                => processed_text = <<StemCompani>>)

\* with stopwords {"the"}: a token with an unrecognized tag is retained as a
\* noun and a verb is dropped
C8_Witness ==
    /\ l_pc = "returned"
    /\ stopwords = {TokThe}
    /\ tagged = << <<TokCompanies, <<".">> >>, <<TokRunning, <<"V", "B">> >> >>
    /\ processed_text = <<StemCompani>>

(***************************************************************************)
(* Properties of add_bigrams (checked under SpecBigram)                    *)
(***************************************************************************)

IsPrefix(p, q) == Len(p) <= Len(q) /\ SubSeq(q, 1, Len(p)) = p

TopicKeys == 0..(num_topics - 1)

RECURSIVE SumLen(_, _)
SumLen(f, S) ==
    IF S = {} THEN 0
    ELSE LET t == CHOOSE x \in S : TRUE IN Len(f[t]) + SumLen(f, S \ {t})

Occurrences(seq, k) == Cardinality({i \in 1..Len(seq) : seq[i] = k})

RECURSIVE SumOccurrences(_, _, _)
SumOccurrences(f, S, k) ==
    IF S = {} THEN 0
    ELSE LET t == CHOOSE x \in S : TRUE
         IN  Occurrences(f[t], k) + SumOccurrences(f, S \ {t}, k)

\* the company at hand goes to the end of bucket t and nothing else changes
AppendedTo(t) ==
    /\ t \in DOMAIN cluster
    /\ DOMAIN cluster' = DOMAIN cluster
    /\ cluster'[t] = Append(cluster[t], companies[c_idx])
    /\ \A u \in DOMAIN cluster \ {t} : cluster'[u] = cluster[u]

\* the model's answer is non-empty with topic indices in 0..num_topics-1
ValidPrediction ==
    mod_pred # <<>> /\ \A i \in 1..Len(mod_pred) : mod_pred[i][1] \in TopicKeys

BucketsInv ==
    c_pc \in {"loop", "have_pred", "returned", "raised"} =>
        /\ DOMAIN cluster = TopicKeys
        /\ SumLen(cluster, DOMAIN cluster) = c_idx - 1
        /\ \A k \in SourceKeys :
              SumOccurrences(cluster, DOMAIN cluster, k)
                  = Occurrences(SubSeq(companies, 1, c_idx - 1), k)
        /\ (c_pc = "returned" =>
              SumLen(cluster, DOMAIN cluster) = Len(companies))

OneBucketPerSource ==
    (c_pc = "have_pred" /\ ValidPrediction) =>
        /\ c_pc' = "loop"
        /\ c_idx' = c_idx + 1
        /\ Cardinality({t \in TopicKeys : AppendedTo(t)}) = 1

\* C1: when every answer of the model is non-empty with topic indices in
\* 0..num_topics-1, the mapping has exactly the keys 0..num_topics-1 (empty
\* buckets included), every position of companies adds its key to exactly one
\* bucket, and the bucket lengths sum to len(companies) at the return.
C1_EverySourceInOneBucket ==
    /\ []BucketsInv
    /\ [][OneBucketPerSource]_vars

\* two topics, both sources in one bucket, the other bucket left empty
C1_Witness ==
    /\ c_pc = "returned"
    /\ num_topics = 2
    /\ Len(companies) = 2
    /\ cluster[0] = <<>>
    /\ Len(cluster[1]) = 2

\* the first position holding the largest weight, stated without index()
FirstMax(pred) ==
    CHOOSE i \in 1..Len(pred) :
        /\ \A j \in 1..Len(pred) : pred[j][2] <= pred[i][2]
        /\ \A j \in 1..(i - 1) : pred[j][2] < pred[i][2]

MainTopicStep ==
    (c_pc = "have_pred" /\ mod_pred # <<>> /\ c_pc' = "loop") =>
        AppendedTo(mod_pred[FirstMax(mod_pred)][1])

ExampleStep ==
    /\ (c_pc = "have_pred" /\ num_topics = 2 /\ mod_pred = << <<0, 1>>, <<1, 9>> >>)
          => AppendedTo(1)
    /\ (c_pc = "have_pred" /\ num_topics = 2 /\ mod_pred = << <<0, 8>>, <<1, 2>> >>)
          => AppendedTo(0)
    /\ (c_pc = "have_pred" /\ num_topics = 2 /\ mod_pred = << <<1, 9>>, <<0, 9>> >>)
          => AppendedTo(1)

\* C2: the source at index i is appended to the bucket of the topic of the
\* maximum-weight pair of the model's answer, the first such pair in the list
\* deciding a tie; a bucket keeps the order of the sources.
C2_MainTopicFirstMax ==
    /\ [][MainTopicStep]_vars
    /\ [][ExampleStep]_vars

\* the outcome of the documented example: {0: [B], 1: [A]}
C2_Witness ==
    /\ c_pc = "returned"
    /\ num_topics = 2
    /\ companies = <<"A", "B">>
    /\ cluster[0] = <<"B">>
    /\ cluster[1] = <<"A">>

EmptyAnswerRaises ==
    (c_pc = "have_pred" /\ mod_pred = <<>>) =>
        (c_pc' = "raised" /\ cluster' = cluster /\ c_idx' = c_idx)

\* C3: an empty weight list ends the call in an error: no mapping is returned
\* and no further source is processed.
C3_EmptyWeightsRaise ==
    /\ [][EmptyAnswerRaises]_vars
    /\ [][c_pc # "raised"]_vars

\* the call has raised on an empty answer with sources left over
C3_Witness ==
    /\ c_pc = "raised"
    /\ mod_pred = <<>>
    /\ c_idx < Len(companies)

====
